---- MODULE Spec2Model ----
(***************************************************************************)
(* A model of zotero_cleaner.py: the storage tree, the backup directory,   *)
(* the Database Index, and the three mutating phases of main():            *)
(* clean_duplicate_pdfs, clean_orphaned_pdfs and clean_empty_folders.      *)
(*                                                                         *)
(* A folder is the sequence of folder names leading to it from the storage *)
(* root (the root is <<>>); a file is [dir |-> folder, name |-> filename]. *)
(* The backup directory maps each destination filename to the file whose   *)
(* bytes it holds.  Folders in `denied` are folders on which the operating *)
(* system refuses access: listing them raises PermissionError, so os.walk  *)
(* skips them silently and removing them fails.  shutil.move, os.rmdir and *)
(* shutil.rmtree are taken to be all-or-nothing.                           *)
(***************************************************************************)
EXTENDS Integers, Sequences, FiniteSets, TLC

\* ------------------------------------------------------------- bounds
MaxFolders == 2     \* folders in the initial storage tree
MaxFiles == 2       \* files in the initial storage tree
MaxDenied == 1      \* folders the operating system denies access to

\* ----------------------------------------------------------- universes
FolderNames == {"AB", "XY"}
StorageName == "storage"

\* Filenames, each with what os.path.splitext makes of it.
NameParts == {<<"a", ".pdf">>, <<"b", ".PDF">>, <<"n", ".txt">>, <<".DS_Store", "">>}
PdfNames == {"a.pdf", "b.PDF"}

\* What a backup directory may hold from an earlier run.
OldBackupNames ==
    {{}, {"dup_XY_a.pdf"}, {"dup_XY_a.pdf", "dup_XY_a_1.pdf"}, {"orphan_XY_b.PDF"}}

Root == <<>>

\* ------------------------------------------------------ path helpers
IsPrefix(p, q) == Len(p) <= Len(q) /\ SubSeq(q, 1, Len(p)) = p
Parent(p) == SubSeq(p, 1, Len(p) - 1)
\* os.path.basename of a folder
Basename(p) == IF p = Root THEN StorageName ELSE p[Len(p)]
\* the folders from p down to q, both included (p a prefix of q)
Chain(p, q) == {SubSeq(q, 1, k) : k \in Len(p)..Len(q)} \ {Root}

\* ------------------------------------------------------ string helpers
splitext(name) == CHOOSE p \in NameParts : p[1] \o p[2] = name
lower(ext) == IF ext = ".PDF" THEN ".pdf" ELSE ext
\* file.lower().endswith('.pdf')
IsPdfCaseSensitive(name) == splitext(name)[2] = ".pdf"
IsPdf(name) == lower(splitext(name)[2]) = ".pdf"
Artifacts == {".DS_Store", "Thumbs.db", "desktop.ini", ".zotero-ft-cache"}

VARIABLES
    dirs,              \* folders that exist under the storage root
    files,             \* files that exist under the storage root
    backup,            \* the backup directory: destination name -> file held
    denied,            \* folders whose listing raises PermissionError
    db_files,          \* Database Index: filename -> folders recorded for it
    db_folders,        \* ValidFolderSet
    pc,                \* position in main()
    pdf_files,         \* main's scan result
    files_to_delete,   \* marked files not yet attempted by the move loop
    success_count,     \* the running resolver's counter
    dup_count, orphan_count, folder_count,  \* main's results
    folders_to_check,  \* the rest of the current pruner pass
    deleted, empty_count, invalid_count,    \* clean_empty_folders' locals
    \* history, read by the properties only
    dirs0, files0, backup0,   \* the state before the run (or the first call)
    choice,            \* the answer to the running resolver's prompt
    marked,            \* the files the last resolver marked
    failed,            \* the marked files whose move raised
    passes,            \* passes of the pruner's loop in this call
    pass_removed,      \* folders removed in the current pass
    rm_log,            \* removed folders: [path, how, top, held]
    calls,             \* calls of clean_empty_folders so far
    snap               \* [dirs, files, count] when the first call returned

vars == <<dirs, files, backup, denied, db_files, db_folders, pc, pdf_files,
          files_to_delete, success_count, dup_count, orphan_count, folder_count,
          folders_to_check, deleted, empty_count, invalid_count,
          dirs0, files0, backup0, choice, marked, failed, passes, pass_removed,
          rm_log, calls, snap>>

fs == <<dirs, files, backup>>
db == <<denied, db_files, db_folders>>
init_hist == <<dirs0, files0, backup0>>
prune_locals == <<folders_to_check, deleted, empty_count, invalid_count>>
prune_hist == <<passes, pass_removed, rm_log, calls, snap>>
move_hist == <<choice, marked, failed>>

\* ---------------------------------------------------- initial states
RECURSIVE TreesUpTo(_)
TreesUpTo(n) ==
    IF n = 0 THEN {{}}
    ELSE LET T == TreesUpTo(n - 1)
         IN  T \cup UNION {{t \cup {Append(p, x)} :
                                p \in {Root} \cup t, x \in FolderNames} : t \in T}

RECURSIVE SubsetsUpTo(_, _)
SubsetsUpTo(S, k) ==
    IF k = 0 THEN {{}}
    ELSE LET R == SubsetsUpTo(S, k - 1)
         IN  R \cup {r \cup {x} : r \in R, x \in S}

Slots(D, names) == {[dir |-> p, name |-> n] : p \in D, n \in names}
OldContent(n) == [dir |-> <<"backup">>, name |-> n]

\* get_database_pdfs: every recorded folder is in db_folders
DbIndexes(keys, folders) ==
    UNION {[K -> (SUBSET folders) \ {{}}] : K \in SUBSET keys}
OldBackups == {[n \in N |-> OldContent(n)] : N \in OldBackupNames}

InitLocals ==
    /\ pdf_files = {} /\ files_to_delete = {} /\ success_count = 0
    /\ dup_count = 0 /\ orphan_count = 0 /\ folder_count = 0
    /\ folders_to_check = <<>> /\ deleted = FALSE
    /\ empty_count = 0 /\ invalid_count = 0
    /\ dirs0 = dirs /\ files0 = files /\ backup0 = backup
    /\ choice = "none" /\ marked = {} /\ failed = {}
    /\ passes = 0 /\ pass_removed = 0 /\ rm_log = {} /\ calls = 0
    /\ snap = [dirs |-> {}, files |-> {}, count |-> 0]

\* main() on a storage tree of PDF and other files, one folder at most denied
Init ==
    /\ dirs \in TreesUpTo(MaxFolders)
    /\ files \in SubsetsUpTo(Slots(dirs \cup {Root}, {"b.PDF", "n.txt"}), MaxFiles)
    /\ denied \in SubsetsUpTo(dirs, 1)
    /\ db_folders \in SUBSET FolderNames
    /\ db_files \in DbIndexes({"b.PDF"}, db_folders)
    /\ backup = <<>>
    /\ pc = "scan"
    /\ InitLocals

\* main() on a storage tree of PDF files, with a backup directory in use
InitMove ==
    /\ dirs \in TreesUpTo(MaxFolders)
    /\ files \in SubsetsUpTo(Slots(dirs \cup {Root}, PdfNames), MaxFiles)
    /\ denied = {}
    /\ db_files \in DbIndexes({"a.pdf"}, FolderNames)
    /\ db_folders = UNION {db_files[n] : n \in DOMAIN db_files}
    /\ backup \in OldBackups
    /\ pc = "scan"
    /\ InitLocals

\* clean_empty_folders called on any storage tree
InitPrune ==
    /\ dirs \in TreesUpTo(MaxFolders)
    /\ files \in SubsetsUpTo(Slots(dirs, {"b.PDF", "n.txt", ".DS_Store"}), MaxFiles)
    /\ denied \in SubsetsUpTo(dirs, MaxDenied)
    /\ db_folders \in SUBSET FolderNames
    /\ db_files = <<>>
    /\ backup = <<>>
    /\ pc = "prune_call"
    /\ InitLocals

\* ---------------------------------------------------- Storage Scanner
\* os.walk skips, without raising, a folder it cannot list
Visible(top, f) == IsPrefix(top, f.dir) /\ Chain(top, f.dir) \cap denied = {}
collect_pdf_files == {f \in files : IsPdf(f.name) /\ Visible(Root, f)}

\* os.path.basename(os.path.dirname(full_path))
Folder(f) == Basename(f.dir)
pdf_by_name(name) == {f \in pdf_files : f.name = name}

Scan ==
    /\ pc = "scan"
    /\ pdf_files' = collect_pdf_files
    /\ pc' = IF collect_pdf_files = {} THEN "done" ELSE "dup"
    /\ UNCHANGED <<fs, db, files_to_delete, success_count, dup_count,
                   orphan_count, folder_count, prune_locals, init_hist,
                   move_hist, prune_hist>>

\* ------------------------------------------- relocation to the backup
dest_filename(kind, f) == kind \o "_" \o Folder(f) \o "_" \o f.name
\* os.path.splitext(dest_filename): the extension is the filename's
dest_splitext(kind, f) ==
    <<kind \o "_" \o Folder(f) \o "_" \o splitext(f.name)[1], splitext(f.name)[2]>>
\* the name the loop tries after `counter` collisions
Candidate(kind, f, counter) ==
    IF counter = 0 THEN dest_filename(kind, f)
    ELSE dest_splitext(kind, f)[1] \o "_" \o ToString(counter)
             \o dest_splitext(kind, f)[2]
\* while os.path.exists(dest_path): ... counter += 1
DestOverwrite(kind, f, bk) == dest_filename(kind, f)
dest_path(kind, f, bk) ==
    LET taken(k) == Candidate(kind, f, k) \in DOMAIN bk
        n == CHOOSE k \in 0..Cardinality(DOMAIN bk) :
                 /\ ~taken(k)
                 /\ \A j \in 0..(k - 1) : taken(j)
    IN  Candidate(kind, f, n)

Put(bk, name, f) == [n \in DOMAIN bk \cup {name} |-> IF n = name THEN f ELSE bk[n]]

\* one iteration of a move loop: shutil.move succeeds, or raises and the
\* except clause goes on to the next file
CountAlways(ok) == success_count + 1
Counted(ok) == IF ok THEN success_count + 1 ELSE success_count

MoveOne(kind, f, ok) ==
    /\ files_to_delete' = files_to_delete \ {f}
    /\ IF ok
       THEN /\ files' = files \ {f}
            /\ backup' = Put(backup, dest_path(kind, f, backup), f)
            /\ UNCHANGED failed
       ELSE /\ UNCHANGED <<files, backup>>
            /\ failed' = failed \cup {f}
    /\ success_count' = Counted(ok)
    /\ UNCHANGED <<dirs, db, pc, pdf_files, dup_count, orphan_count,
                   folder_count, prune_locals, init_hist, choice, marked,
                   prune_hist>>

\* -------------------------------------------------- Duplicate Resolver
duplicates == {name \in {f.name : f \in pdf_files} : Cardinality(pdf_by_name(name)) > 1}

KeepAny(f) == f.name \in DOMAIN db_files
Keep(f) == f.name \in DOMAIN db_files /\ Folder(f) \in db_files[f.name]

dup_files_to_delete == {f \in pdf_files : f.name \in duplicates /\ ~Keep(f)}

\* classification and the confirmation prompt
DupClassify ==
    /\ pc = "dup"
    /\ marked' = dup_files_to_delete
    /\ failed' = {}
    /\ \/ /\ dup_files_to_delete = {}
          /\ choice' = "none"
          /\ dup_count' = 0
          /\ pc' = "rescan"
          /\ UNCHANGED <<files_to_delete, success_count>>
       \/ /\ dup_files_to_delete # {}
          /\ choice' = "n"
          /\ dup_count' = 0
          /\ pc' = "rescan"
          /\ UNCHANGED <<files_to_delete, success_count>>
       \/ /\ dup_files_to_delete # {}
          /\ choice' = "y"
          /\ files_to_delete' = dup_files_to_delete
          /\ success_count' = 0
          /\ pc' = "dup_move"
          /\ UNCHANGED dup_count
    /\ UNCHANGED <<fs, db, pdf_files, orphan_count, folder_count,
                   prune_locals, init_hist, prune_hist>>

DupMove ==
    /\ pc = "dup_move"
    /\ \E f \in files_to_delete, ok \in BOOLEAN : MoveOne("dup", f, ok)

DupReturn ==
    /\ pc = "dup_move"
    /\ files_to_delete = {}
    /\ dup_count' = success_count
    /\ pc' = "rescan"
    /\ UNCHANGED <<fs, db, pdf_files, files_to_delete, success_count,
                   orphan_count, folder_count, prune_locals, init_hist,
                   move_hist, prune_hist>>

\* main: the scan is repeated when the Duplicate Resolver moved something
Rescan ==
    /\ pc = "rescan"
    /\ pdf_files' = IF dup_count > 0 THEN collect_pdf_files ELSE pdf_files
    /\ pc' = "orphan"
    /\ UNCHANGED <<fs, db, files_to_delete, success_count, dup_count,
                   orphan_count, folder_count, prune_locals, init_hist,
                   move_hist, prune_hist>>

\* ----------------------------------------------------- Orphan Resolver
OrphanedIfNoFolder(f) == f.name \notin DOMAIN db_files \/ Folder(f) \notin db_files[f.name]
Orphaned(f) == f.name \notin DOMAIN db_files
orphaned_files == {f \in pdf_files : Orphaned(f)}

OrphanClassify ==
    /\ pc = "orphan"
    /\ marked' = orphaned_files
    /\ failed' = {}
    /\ \/ /\ orphaned_files = {}
          /\ choice' = "none"
          /\ orphan_count' = 0
          /\ pc' = "prune_call"
          /\ UNCHANGED <<files_to_delete, success_count>>
       \/ /\ orphaned_files # {}
          /\ choice' = "n"
          /\ orphan_count' = 0
          /\ pc' = "prune_call"
          /\ UNCHANGED <<files_to_delete, success_count>>
       \/ /\ orphaned_files # {}
          /\ choice' = "y"
          /\ files_to_delete' = orphaned_files
          /\ success_count' = 0
          /\ pc' = "orphan_move"
          /\ UNCHANGED orphan_count
    /\ UNCHANGED <<fs, db, pdf_files, dup_count, folder_count,
                   prune_locals, init_hist, prune_hist>>

OrphanMove ==
    /\ pc = "orphan_move"
    /\ \E f \in files_to_delete, ok \in BOOLEAN : MoveOne("orphan", f, ok)

OrphanReturn ==
    /\ pc = "orphan_move"
    /\ files_to_delete = {}
    /\ orphan_count' = success_count
    /\ pc' = "prune_call"
    /\ UNCHANGED <<fs, db, pdf_files, files_to_delete, success_count,
                   dup_count, folder_count, prune_locals, init_hist,
                   move_hist, prune_hist>>

\* -------------------------------------------------------- Folder Pruner
Subtree(p) == {d \in dirs : IsPrefix(p, d)}
FilesIn(p) == {f \in files : f.dir = p}
Subdirs(p) == {d \in dirs : Len(d) = Len(p) + 1 /\ IsPrefix(p, d)}

\* os.listdir raises on a folder that is gone or cannot be listed
CanList(p) == p \in dirs /\ p \notin denied

is_folder_empty(p) ==
    /\ CanList(p)
    /\ Subdirs(p) = {}
    /\ \A f \in FilesIn(p) : f.name \in Artifacts

has_pdf_shallow(p) == \E f \in FilesIn(p) : IsPdf(f.name) /\ CanList(p)
has_pdf_case_sensitive(p) ==
    \E f \in files : IsPdfCaseSensitive(f.name) /\ Visible(p, f)
has_pdf_files(p) == \E f \in files : IsPdf(f.name) /\ Visible(p, f)

\* the elif of clean_empty_folders
InvalidAnyName(p) == ~has_pdf_files(p)
Invalid(p) == ~has_pdf_files(p) /\ Basename(p) \notin db_folders

\* os.rmdir(dir_path) removes a folder that holds nothing, else it raises
rmdir_ok(p) == p \in dirs /\ p \notin denied /\ Subdirs(p) = {} /\ FilesIn(p) = {}
\* shutil.rmtree(dir_path) raises when it meets a folder it may not enter
delete_folder_safe(p) == p \in dirs /\ Subtree(p) \cap denied = {}

\* the listing orders of the folder names
Orders ==
    {s \in [1..Cardinality(FolderNames) -> FolderNames] :
        \A i, j \in DOMAIN s : i # j => s[i] # s[j]}

RECURSIVE Flatten(_)
Flatten(ss) == IF ss = <<>> THEN <<>> ELSE Head(ss) \o Flatten(Tail(ss))

\* the folders right under `top` only
walk_shallow(top, ord) ==
    LET names == SelectSeq(ord, LAMBDA n : Append(top, n) \in dirs)
    IN  [i \in 1..Len(names) |-> Append(top, names[i])]

\* for root, dirs, files in os.walk(storage_dir, topdown=False):
\*     for dir_name in dirs: folders_to_check.append(...)
RECURSIVE walk_bottom_up(_, _)
walk_bottom_up(top, ord) ==
    IF top \in denied THEN <<>>
    ELSE LET names == SelectSeq(ord, LAMBDA n : Append(top, n) \in dirs)
             subs == [i \in 1..Len(names) |-> Append(top, names[i])]
         IN  Flatten([i \in 1..Len(subs) |-> walk_bottom_up(subs[i], ord)]) \o subs

PruneCall ==
    /\ pc = "prune_call"
    /\ empty_count' = 0
    /\ invalid_count' = 0
    /\ deleted' = TRUE
    /\ folders_to_check' = <<>>
    /\ passes' = 0
    /\ pass_removed' = 0
    /\ calls' = calls + 1
    /\ pc' = "loop"
    /\ UNCHANGED <<fs, db, pdf_files, files_to_delete, success_count,
                   dup_count, orphan_count, folder_count, init_hist,
                   move_hist, rm_log, snap>>

\* while deleted: deleted = False; collect the folders
PassStart ==
    /\ pc = "loop"
    /\ deleted
    /\ deleted' = FALSE
    /\ \E ord \in Orders :
          /\ folders_to_check' = walk_bottom_up(Root, ord)
          /\ pc' = IF walk_bottom_up(Root, ord) = <<>> THEN "loop" ELSE "check"
    /\ passes' = passes + 1
    /\ pass_removed' = 0
    /\ UNCHANGED <<fs, db, pdf_files, files_to_delete, success_count,
                   dup_count, orphan_count, folder_count, empty_count,
                   invalid_count, init_hist, move_hist, rm_log, calls, snap>>

DeletedAlways(ok) == TRUE
Deleted(ok) == IF ok THEN TRUE ELSE deleted

\* one iteration of `for dir_path in folders_to_check`
CheckFolder ==
    /\ pc = "check"
    /\ folders_to_check # <<>>
    /\ LET p == Head(folders_to_check)
       IN  /\ IF is_folder_empty(p)
              THEN \* os.rmdir; on an exception the except clauses skip the folder
                   /\ dirs' = IF rmdir_ok(p) THEN dirs \ {p} ELSE dirs
                   /\ files' = files
                   /\ empty_count' = IF rmdir_ok(p) THEN empty_count + 1 ELSE empty_count
                   /\ deleted' = Deleted(rmdir_ok(p))
                   /\ rm_log' = IF rmdir_ok(p)
                                THEN rm_log \cup
                                     {[path |-> p, how |-> "empty", top |-> p,
                                       held |-> Subdirs(p) # {} \/ FilesIn(p) # {}]}
                                ELSE rm_log
                   /\ UNCHANGED invalid_count
              ELSE IF Invalid(p)
              THEN /\ dirs' = IF delete_folder_safe(p) THEN dirs \ Subtree(p) ELSE dirs
                   /\ files' = IF delete_folder_safe(p)
                               THEN {f \in files : ~IsPrefix(p, f.dir)} ELSE files
                   /\ invalid_count' = IF delete_folder_safe(p)
                                       THEN invalid_count + 1 ELSE invalid_count
                   /\ deleted' = Deleted(delete_folder_safe(p))
                   /\ rm_log' = IF delete_folder_safe(p)
                                THEN rm_log \cup
                                     {[path |-> d,
                                       how |-> IF d = p THEN "invalid" ELSE "nested",
                                       top |-> p,
                                       held |-> Subdirs(d) # {} \/ FilesIn(d) # {}] :
                                      d \in Subtree(p)}
                                ELSE rm_log
                   /\ UNCHANGED empty_count
              ELSE UNCHANGED <<dirs, files, empty_count, invalid_count, deleted, rm_log>>
    /\ folders_to_check' = Tail(folders_to_check)
    /\ pc' = IF Tail(folders_to_check) = <<>> THEN "loop" ELSE "check"
    /\ pass_removed' = pass_removed + Cardinality(dirs \ dirs')
    /\ UNCHANGED <<backup, db, pdf_files, files_to_delete, success_count,
                   dup_count, orphan_count, folder_count, init_hist,
                   move_hist, passes, calls, snap>>

PruneReturn ==
    /\ pc = "loop"
    /\ ~deleted
    /\ folder_count' = empty_count + invalid_count
    /\ snap' = IF calls = 1
               THEN [dirs |-> dirs, files |-> files, count |-> empty_count + invalid_count]
               ELSE snap
    /\ pc' = "done"
    /\ UNCHANGED <<fs, db, pdf_files, files_to_delete, success_count,
                   dup_count, orphan_count, prune_locals, init_hist,
                   move_hist, passes, pass_removed, rm_log, calls>>

\* clean_empty_folders called again on the tree the first call left
Rerun ==
    /\ pc = "done"
    /\ calls = 1
    /\ pc' = "prune_call"
    /\ UNCHANGED <<fs, db, pdf_files, files_to_delete, success_count,
                   dup_count, orphan_count, folder_count, prune_locals,
                   init_hist, move_hist, prune_hist>>

\* ------------------------------------------------------ specifications
\* main(): scan, Duplicate Resolver, rescan, Orphan Resolver, Folder Pruner
Next ==
    \/ Scan
    \/ DupClassify \/ DupMove \/ DupReturn
    \/ Rescan
    \/ OrphanClassify \/ OrphanMove \/ OrphanReturn
    \/ PruneCall \/ PassStart \/ CheckFolder \/ PruneReturn

Spec == Init /\ [][Next]_vars

\* main() up to the call of the Folder Pruner
NextMove ==
    \/ Scan
    \/ DupClassify \/ DupMove \/ DupReturn
    \/ Rescan
    \/ OrphanClassify \/ OrphanMove \/ OrphanReturn
SpecMove == InitMove /\ [][NextMove]_vars

\* clean_empty_folders twice in a row
NextPrune == PruneCall \/ PassStart \/ CheckFolder \/ PruneReturn \/ Rerun
SpecPrune == InitPrune /\ [][NextPrune]_vars

\* clean_empty_folders once; a sequential program goes on to its next
\* statement for as long as it has one
NextPruneOnce == PruneCall \/ PassStart \/ CheckFolder \/ PruneReturn
SpecPruneFair == InitPrune /\ [][NextPruneOnce]_vars /\ WF_vars(NextPruneOnce)

\* ============================================================ properties
InBackup(f) == \E n \in DOMAIN backup : backup[n] = f
Copies(f) == Cardinality(pdf_by_name(f.name))
Known(f) == f.name \in DOMAIN db_files
Recorded(f) == Known(f) /\ Folder(f) \in db_files[f.name]

\* C1: when the Duplicate Resolver has returned, the user having confirmed
\* (or nothing having been marked) and no move having failed, a scanned copy
\* of a filename with several copies is still in place exactly when the
\* filename is a key of the Database Index and the copy's folder is recorded
\* for it, every other such copy is in the backup directory, and every file
\* that is the only copy of its filename is still in place.
C1_DuplicateResolution ==
    /\ (pc = "rescan" /\ choice \in {"y", "none"} /\ failed = {}) =>
           \A f \in pdf_files :
               Copies(f) > 1 =>
                   /\ f \in files <=> Recorded(f)
                   /\ f \notin files => InBackup(f)
    /\ pc \in {"dup_move", "rescan"} =>
           \A f \in pdf_files : Copies(f) = 1 => f \in files

C1_Witness ==
    /\ pc = "rescan" /\ choice = "y" /\ failed = {}
    /\ \E f, g \in pdf_files :
          /\ f.name = g.name /\ Known(f)
          /\ f \in files /\ g \notin files /\ InBackup(g)

\* C2: at every point of a run, every PDF file that was under the storage
\* root at the start is either still at its place in storage, in a folder
\* that still exists, or held by the backup directory; so a folder that has
\* been deleted held no PDF of the storage in its subtree any more.
C2_NoPdfLost ==
    /\ \A f \in files0 :
          IsPdf(f.name) =>
              \/ f \in files /\ Chain(Root, f.dir) \subseteq dirs
              \/ InBackup(f)
    /\ \A p \in dirs0 \ dirs :
          \A f \in files0 : (IsPdf(f.name) /\ IsPrefix(p, f.dir)) => InBackup(f)

C2_Witness ==
    /\ pc = "done"
    /\ dirs # dirs0
    /\ failed # {}
    /\ \E f \in files0 : IsPdf(f.name) /\ InBackup(f)
    /\ \E f \in files0 : IsPdf(f.name) /\ f \in files

\* C7: a relocation never overwrites: every file the backup directory held
\* at the start is still there under its name, the directory has grown by
\* one file per file that left storage, and every relocated file sits under
\* the first free name of its scheme: the constructed name, or the lowest
\* _1, _2, ... before the extension such that all the names before it exist.
Schemes == {"dup", "orphan"}
FirstFree(kind, f, n) ==
    \E k \in 0..Cardinality(DOMAIN backup) :
        /\ n = Candidate(kind, f, k)
        /\ \A j \in 0..(k - 1) : Candidate(kind, f, j) \in DOMAIN backup \ {n}

C7_NoOverwrite ==
    /\ \A n \in DOMAIN backup0 : n \in DOMAIN backup /\ backup[n] = backup0[n]
    /\ Cardinality(DOMAIN backup) =
           Cardinality(DOMAIN backup0) + Cardinality(files0 \ files)
    /\ \A n \in DOMAIN backup \ DOMAIN backup0 :
          \E kind \in Schemes : FirstFree(kind, backup[n], n)

C7_Witness ==
    \E n \in DOMAIN backup \ DOMAIN backup0 :
        /\ n = Candidate("dup", backup[n], 2)
        /\ Candidate("dup", backup[n], 0) \in DOMAIN backup0
        /\ Candidate("dup", backup[n], 1) \in DOMAIN backup0

\* C8 as stated: when the Orphan Resolver has returned, the user having
\* confirmed and no move having failed, every scanned file whose filename is
\* not a key of the Database Index is in the backup directory under the name
\* orphan_<folder>_<filename>, and every file whose filename is a key is
\* still in place.
C8_Original ==
    (pc = "prune_call" /\ choice \in {"y", "none"} /\ failed = {}) =>
        \A f \in pdf_files :
            IF Known(f) THEN f \in files
            ELSE /\ f \notin files
                 /\ dest_filename("orphan", f) \in DOMAIN backup
                 /\ backup[dest_filename("orphan", f)] = f

\* C8 amended: the same, the file being in the backup directory under
\* orphan_<folder>_<filename> or, when that name was taken, under the first
\* free name with _1, _2, ... before the extension.
C8_OrphanResolution ==
    (pc = "prune_call" /\ choice \in {"y", "none"} /\ failed = {}) =>
        \A f \in pdf_files :
            IF Known(f) THEN f \in files
            ELSE /\ f \notin files
                 /\ \E n \in DOMAIN backup :
                       backup[n] = f /\ FirstFree("orphan", f, n)

C8_Witness ==
    /\ pc = "prune_call" /\ choice = "y" /\ failed = {}
    /\ \E f \in pdf_files : Known(f) /\ f \in files
    /\ \E f \in pdf_files :
          /\ ~Known(f)
          /\ \E n \in DOMAIN backup :
                backup[n] = f /\ n # dest_filename("orphan", f)

\* C9: a resolver returns the number of files it moved.  When the Duplicate
\* Resolver has returned, dup_count is the number of scanned files that left
\* storage and the number of files the backup directory gained; a marked
\* file is still in storage exactly when its move failed, so every marked
\* file was attempted; after a declined prompt nothing has changed and the
\* count is 0.  The same for the Orphan Resolver and orphan_count.
Gained == Cardinality(DOMAIN backup) - Cardinality(DOMAIN backup0)
C9_ReturnCount ==
    /\ pc = "rescan" =>
          /\ dup_count = Cardinality(pdf_files \ files)
          /\ dup_count = Gained
          /\ choice = "y" => /\ \A f \in marked : f \in files <=> f \in failed
                             /\ dup_count = Cardinality(marked \ failed)
          /\ choice # "y" => dup_count = 0 /\ files = files0 /\ backup = backup0
    /\ pc = "prune_call" =>
          /\ orphan_count = Cardinality(pdf_files \ files)
          /\ dup_count + orphan_count = Gained
          /\ choice = "y" => /\ \A f \in marked : f \in files <=> f \in failed
                             /\ orphan_count = Cardinality(marked \ failed)
          /\ choice # "y" => /\ orphan_count = 0
                             /\ Cardinality(files0 \ files) = dup_count
                             /\ Gained = dup_count

C9_Witness ==
    /\ pc = "rescan" /\ choice = "y"
    /\ failed # {} /\ dup_count >= 1

\* --------------------------------------------- Folder Pruner properties
Valid(p) == Basename(p) \in db_folders
OnlyArtifacts(p) ==
    Subdirs(p) = {} /\ \A f \in FilesIn(p) : f.name \in Artifacts
\* the walk of the tree gets to p: every folder above it can be listed
Reachable(p) == Chain(Root, Parent(p)) \cap denied = {}
\* the folders clean_empty_folders was called on
CallDirs == IF calls <= 1 THEN dirs0 ELSE snap.dirs

\* C3 as stated: every folder that existed before the call and whose name
\* is in ValidFolderSet still exists.
C3_Original == \A p \in dirs0 : Valid(p) => p \in dirs

\* C3 amended: a folder whose name is in ValidFolderSet is removed only by
\* the empty check, at a moment when it holds no entry at all, or together
\* with an enclosing folder that the invalid check deletes recursively (a
\* folder whose name is not in ValidFolderSet); every other such folder
\* still exists.
C3_ValidFolders ==
    /\ \A r \in rm_log :
          Valid(r.path) =>
              \/ r.how = "empty" /\ ~r.held
              \/ r.how = "nested" /\ ~Valid(r.top) /\ IsPrefix(r.top, r.path)
    /\ \A p \in dirs0 \ dirs : \E r \in rm_log : r.path = p

C3_Witness ==
    /\ pc = "done"
    /\ \E r \in rm_log : Valid(r.path) /\ r.how = "empty"
    /\ \E p \in dirs : Valid(p) /\ FilesIn(p) # {} /\ ~has_pdf_files(p) /\ p \notin denied

\* C4: every folder that had a PDF file in its subtree when
\* clean_empty_folders was called still exists, with that file in place, at
\* every point of every pass.
C4_PdfFoldersKept ==
    \A f \in files0 :
        IsPdf(f.name) => f \in files /\ Chain(Root, f.dir) \subseteq dirs

C4_Witness ==
    /\ pc = "done"
    /\ passes >= 1
    /\ \E f \in files : /\ IsPdf(f.name) /\ Len(f.dir) >= 2
                         /\ FilesIn(Parent(f.dir)) = {}
                         /\ \A p \in Chain(Root, f.dir) : ~Valid(p) /\ p \notin denied

\* C5 as stated: when clean_empty_folders has returned, no folder that the
\* walk reaches, that can be listed and that holds nothing but artifact
\* files is left.
C5_ArtifactFoldersRemoved ==
    pc = "done" => \A p \in dirs \ denied : Reachable(p) => ~OnlyArtifacts(p)

\* C6: when clean_empty_folders has returned, no folder that its walk of the
\* tree reaches is left that the empty check or the invalid check would
\* remove, and a second call right
\* after the first returns 0 and leaves the tree as the first call left it.
Removable(p) ==
    /\ Reachable(p)
    /\ \/ is_folder_empty(p) /\ rmdir_ok(p)
       \/ ~is_folder_empty(p) /\ Invalid(p) /\ delete_folder_safe(p)

C6_FixedPoint ==
    pc = "done" =>
        /\ \A p \in dirs : ~Removable(p)
        /\ calls = 2 => /\ folder_count = 0
                        /\ dirs = snap.dirs
                        /\ files = snap.files

C6_Witness ==
    /\ pc = "done" /\ calls = 2
    /\ snap.count >= 1
    /\ dirs # {}

PassesBounded ==
    pc \in {"loop", "check", "done"} =>
        /\ passes <= Cardinality(CallDirs) + 1
        /\ (passes >= 1 /\ pc # "done" /\ deleted) => pass_removed >= 1

\* C10: a call of clean_empty_folders returns; it makes at most (number of
\* folders + 1) passes, and `deleted` is set in a pass only when a folder
\* has really been removed in that pass, so a removal that fails never
\* causes another pass.
C10_Terminates == []PassesBounded /\ <>(pc = "done")

C10_Witness ==
    /\ pc = "done"
    /\ passes = 2
    /\ \E p \in dirs :
          /\ Reachable(p)
          /\ \/ ~is_folder_empty(p) /\ Invalid(p) /\ ~delete_folder_safe(p)
             \/ is_folder_empty(p) /\ ~rmdir_ok(p)

====
